---------------------------- MODULE Spec2Model ----------------------------
(***************************************************************************)
(* A model of two parts of the axiestudio backend:                         *)
(*                                                                         *)
(*   - the OpenAI-compatibility adapter                                    *)
(*     (backend-base/axiestudio/api/v1/openai_responses.py): the handler   *)
(*     openai_chat_completions, its helper run_flow_for_openai_responses   *)
(*     and the response generator generate_stream;                         *)
(*   - the log retrieval buffer SizedLogBuffer                             *)
(*     (backend-base/axiestudio/logging/logger.py), used by several        *)
(*     threads;                                                            *)
(*   - the build order of Graph (axf/graph), whose implementation          *)
(*     (axf.graph.graph.base) is not among the sources and is modelled     *)
(*     from its specification.                                             *)
(*                                                                         *)
(* Python values are modelled as tagged records: [t |-> "none"],           *)
(* [t |-> "str", s |-> <<chars>>], [t |-> "list", items |-> <<...>>],       *)
(* [t |-> "dict", kv |-> [key |-> value, ...]].  A text is the sequence of *)
(* its characters.                                                         *)
(***************************************************************************)
EXTENDS Integers, Sequences, FiniteSets, TLC

VARIABLES
    \* ---- adapter: the inputs of one call of openai_chat_completions
    request,        \* the OpenAIResponsesRequest
    flow_lookup,    \* what get_flow_by_id_or_endpoint_name does for request.model
    flow_mock,      \* what the flow's chunk generator does when it is run
    \* ---- adapter: the state of the call
    pc,             \* position of the handler
    session_id,     \* the local session_id of the handler (line 144)
    response,       \* what the handler returned or raised
    steps,          \* the steps the handler has performed, in order
    run_request,    \* the SimplifiedAPIRequest handed to the flow executor
    result,         \* what simple_run_flow returned
    gen,            \* state of the generate_stream() generator object
    frames,         \* what generate_stream has yielded to the transport
    background_tasks, \* the tasks added to the BackgroundTasks of the call
    client,         \* whether the client of the call is still connected
    \* ---- log buffer
    buffer,         \* SizedLogBuffer.buffer (a deque), left end first
    max_,           \* SizedLogBuffer._max
    environ,        \* os.environ["AXIESTUDIO_LOG_RETRIEVER_BUFFER_SIZE"]
    wlock,          \* holder of SizedLogBuffer._wlock, or NoThread
    rsem,           \* free permits of SizedLogBuffer._rsemaphore
    th,             \* per thread: the buffer method it is in and where
    hist,           \* history of the buffer, for stating the properties
    \* ---- graph
    graph,          \* the Graph: its vertices and its edges
    build           \* the state of Graph.build() and the build order so far

adapterVars == <<request, flow_lookup, flow_mock, pc, session_id, response,
                 steps, run_request, result, gen, frames, background_tasks,
                 client>>
logVars == <<buffer, max_, environ, wlock, rsem, th, hist>>
graphVars == <<graph, build>>
vars == <<adapterVars, logVars, graphVars>>

-----------------------------------------------------------------------------
(* Python values *)

PyNone == [t |-> "none"]
PyStr(s) == [t |-> "str", s |-> s]
\* an identifier-like or message string (a type tag, an id, an error message)
PyName(n) == [t |-> "name", n |-> n]
PyList(q) == [t |-> "list", items |-> q]
PyDict(r) == [t |-> "dict", kv |-> r]
EmptyKV == [k \in {} |-> PyNone]

\* bool(v)
Truthy(v) ==
    CASE v.t = "none" -> FALSE
      [] v.t = "str"  -> Len(v.s) > 0
      [] v.t = "name" -> v.n # ""
      [] v.t = "list" -> Len(v.items) > 0
      [] v.t = "dict" -> DOMAIN v.kv # {}
      [] OTHER        -> TRUE

\* `k in v` is defined for containers; on None it raises TypeError
SupportsIn(v) == v.t \in {"dict", "list", "str", "name"}
KeyIn(k, v) == v.t = "dict" /\ k \in DOMAIN v.kv

\* texts used by the model
T_empty == <<>>
T_hi    == <<"h", "i">>
T_abc   == <<"a", " ", "b", " ", "c">>
T_xy    == <<"x", " ", "y">>
T_Hel   == <<"H", "e", "l">>
T_lo    == <<"l", "o">>
T_sp    == <<" ", "x", " ", " ", "y", "\n">>


-----------------------------------------------------------------------------
(* openai_responses.py: pure helpers *)

\* node.get("data", {}).get("type"): the type tag of a persisted node, or
\* None when the node has no "data" or the data has no "type"
NodeType(node) ==
    LET data == IF KeyIn("data", node) THEN node.kv.data ELSE PyDict(EmptyKV)
    IN  IF KeyIn("type", data) THEN data.kv.type ELSE PyNone

\* any(NodeType(node) in types for node in flow_data["nodes"])
AnyNodeOfType(flow_data, types) ==
    \E i \in 1..Len(flow_data.kv.nodes.items) :
        NodeType(flow_data.kv.nodes.items[i]) \in {PyName(ty) : ty \in types}

has_chat_input(flow_data) ==
    IF ~Truthy(flow_data) \/ ~KeyIn("nodes", flow_data)
    THEN FALSE
    ELSE AnyNodeOfType(flow_data, {"ChatInput", "Chat Input"})

\* variant of has_chat_output that looks for the input type tags
Mut_has_chat_output(flow_data) ==
    IF ~Truthy(flow_data) \/ ~KeyIn("nodes", flow_data)
    THEN FALSE
    ELSE AnyNodeOfType(flow_data, {"ChatInput", "Chat Input"})

has_chat_output(flow_data) ==
    IF ~Truthy(flow_data) \/ ~KeyIn("nodes", flow_data)
    THEN FALSE
    ELSE AnyNodeOfType(flow_data, {"ChatOutput", "Chat Output"})

\* OpenAIErrorResponse(error={message, type, param: None, code: None}),
\* as dumped by model_dump() / model_dump_json()
create_openai_error(error_message) ==
    PyDict([error |-> PyDict([message |-> PyName(error_message),
                              type    |-> PyName("invalid_request_error"),
                              param   |-> PyNone,
                              code    |-> PyNone])])

\* HTTPException(status_code, detail)
HTTPException(status_code, detail) ==
    [kind |-> "HTTPException", status_code |-> status_code, detail |-> detail]

\* lines 263-266: any other exception leaves the handler as a 500 whose
\* detail is an OpenAI-shaped error
InternalServerError ==
    HTTPException(500, create_openai_error("Internal server error"))

\* str.split() counts: the number of maximal runs of non-whitespace characters
Whitespace == {" ", "\t", "\n"}

RECURSIVE WordCountFrom(_, _, _)
WordCountFrom(s, i, inWord) ==
    IF i > Len(s) THEN 0
    ELSE IF s[i] \in Whitespace THEN WordCountFrom(s, i + 1, FALSE)
    ELSE (IF inWord THEN 0 ELSE 1) + WordCountFrom(s, i + 1, TRUE)

\* variant of WordCount: len(s.split(" ")), one more than the blanks
Mut_WordCount(s) == Cardinality({i \in 1..Len(s) : s[i] = " "}) + 1

\* lines 253-255: len(s.split())
WordCount(s) == WordCountFrom(s, 1, FALSE)

\* The outcome of a computation that may raise
Returned(v) == [ok |-> TRUE, value |-> v]
Raised(e) == [ok |-> FALSE, exc |-> e]

\* variant of ExtractResponseContent whose last step is .get("text")
\* without a default
Mut_ExtractResponseContent(res) ==
    IF res.t # "dict" THEN Returned(PyStr(T_empty))
    ELSE IF ~KeyIn("outputs", res) THEN Returned(PyStr(T_empty))
    ELSE LET outputs == res.kv.outputs IN
    IF ~(Truthy(outputs) /\ Len(outputs.items) > 0) THEN Returned(PyStr(T_empty))
    ELSE LET first_output == outputs.items[1] IN
    IF ~SupportsIn(first_output) THEN Raised("TypeError")
    ELSE IF ~KeyIn("outputs", first_output) THEN Returned(PyStr(T_empty))
    ELSE LET output_data == first_output.kv.outputs IN
    IF ~(Truthy(output_data) /\ Len(output_data.items) > 0) THEN Returned(PyStr(T_empty))
    ELSE LET first_data == output_data.items[1] IN
    IF ~SupportsIn(first_data) THEN Raised("TypeError")
    ELSE IF ~KeyIn("results", first_data) THEN Returned(PyStr(T_empty))
    ELSE LET results == first_data.kv.results IN
    IF ~SupportsIn(results) THEN Raised("TypeError")
    ELSE IF ~KeyIn("message", results) THEN Returned(PyStr(T_empty))
    ELSE LET message == results.kv.message IN
    IF message.t # "dict" THEN Raised("AttributeError")
    ELSE IF KeyIn("text", message) THEN Returned(message.kv.text)
    ELSE Returned(PyNone)

\* lines 221-236: the content of the response, dug out of the flow's result.
\* `x in None` raises TypeError, None.get raises AttributeError.
ExtractResponseContent(res) ==
    IF res.t # "dict" THEN Returned(PyStr(T_empty))
    ELSE IF ~KeyIn("outputs", res) THEN Returned(PyStr(T_empty))
    ELSE LET outputs == res.kv.outputs IN
    IF ~(Truthy(outputs) /\ Len(outputs.items) > 0) THEN Returned(PyStr(T_empty))
    ELSE LET first_output == outputs.items[1] IN
    IF ~SupportsIn(first_output) THEN Raised("TypeError")
    ELSE IF ~KeyIn("outputs", first_output) THEN Returned(PyStr(T_empty))
    ELSE LET output_data == first_output.kv.outputs IN
    IF ~(Truthy(output_data) /\ Len(output_data.items) > 0) THEN Returned(PyStr(T_empty))
    ELSE LET first_data == output_data.items[1] IN
    IF ~SupportsIn(first_data) THEN Raised("TypeError")
    ELSE IF ~KeyIn("results", first_data) THEN Returned(PyStr(T_empty))
    ELSE LET results == first_data.kv.results IN
    IF ~SupportsIn(results) THEN Raised("TypeError")
    ELSE IF ~KeyIn("message", results) THEN Returned(PyStr(T_empty))
    ELSE LET message == results.kv.message IN
    IF message.t # "dict" THEN Raised("AttributeError")
    ELSE IF KeyIn("text", message) THEN Returned(message.kv.text)
    ELSE Returned(PyStr(T_empty))

\* lines 238-259: the OpenAIResponsesResponse; response_content.split() raises
\* AttributeError when the content is not a str
OpenAIResponse(model, message_content, response_content) ==
    IF response_content.t # "str" THEN Raised("AttributeError")
    ELSE Returned(
        [object  |-> "chat.completion",
         model   |-> model,
         choices |-> << [index         |-> 0,
                         message       |-> [role    |-> "assistant",
                                            content |-> response_content],
                         finish_reason |-> "stop"] >>,
         usage   |-> [prompt_tokens     |-> WordCount(message_content),
                      completion_tokens |-> WordCount(response_content.s),
                      total_tokens      |-> WordCount(message_content)
                                            + WordCount(response_content.s)]])

\* variant of SimplifiedAPIRequest without session_id=session_id
Mut_SimplifiedAPIRequest(message, sid, tweaks) ==
    [input_value |-> message,
     input_type  |-> "chat",
     output_type |-> "chat",
     tweaks      |-> IF Truthy(tweaks) THEN tweaks ELSE PyDict(EmptyKV),
     session_id  |-> PyNone]

\* lines 60-66: SimplifiedAPIRequest(input_value=message, ...)
SimplifiedAPIRequest(message, sid, tweaks) ==
    [input_value |-> message,
     input_type  |-> "chat",
     output_type |-> "chat",
     tweaks      |-> IF Truthy(tweaks) THEN tweaks ELSE PyDict(EmptyKV),
     session_id  |-> sid]

-----------------------------------------------------------------------------
(* The inputs of a call *)

MaxMsgs == 2
MaxChunks == 2

SeqsUpTo(S, n) == UNION {[1..k -> S] : k \in 0..n}

Models == {"flow-a", "flow-b"}
OpenAIMessages ==
    {[role |-> "user", content |-> T_abc],
     [role |-> "assistant", content |-> T_sp]}

Requests ==
    [model      : Models,
     messages   : SeqsUpTo(OpenAIMessages, MaxMsgs),
     stream     : BOOLEAN,
     session_id : {PyNone, PyName(""), PyName("s1")},
     tweaks     : {PyNone, PyDict([temperature |-> PyName("0.1")])}]

\* tokens uuid.uuid4() may return
UUIDs == {"u1", "u2"}

\* persisted nodes: with a type tag, without "data", with data without "type"
NodeOfType(ty) ==
    PyDict([id |-> PyName("n"), data |-> PyDict([type |-> PyName(ty)])])
NodeNoData == PyDict([id |-> PyName("n")])
NodeNoType == PyDict([id |-> PyName("n"), data |-> PyDict([node |-> PyDict(EmptyKV)])])
Nodes ==
    {NodeOfType(ty) : ty \in {"ChatInput", "Chat Input", "ChatOutput",
                              "Chat Output", "Prompt"}}
    \cup {NodeNoData, NodeNoType}
NodeLists == {<<>>} \cup {<<a>> : a \in Nodes} \cup {<<a, b>> : a, b \in Nodes}

\* flow.data: None, {}, a document without "nodes", a GraphData document
FlowDatas ==
    {PyNone, PyDict(EmptyKV), PyDict([edges |-> PyList(<<>>)])}
    \cup {PyDict([nodes |-> PyList(ns), edges |-> PyList(<<>>)]) : ns \in NodeLists}

FlowRead(data) == [t |-> "flow", id |-> "f1", name |-> "Flow", data |-> data]

\* get_flow_by_id_or_endpoint_name: a flow, None, or a storage error
FlowLookups ==
    {Raised("Exception"), Returned(PyNone)}
    \cup {Returned(FlowRead(d)) : d \in FlowDatas}

\* what the flow's chunk generator yields, and whether it then raises
Chunks == {PyStr(T_Hel), PyStr(T_lo), PyStr(T_empty)}
FlowMocks == [chunks : SeqsUpTo(Chunks, MaxChunks), fails : BOOLEAN]
NoMock == [chunks |-> <<>>, fails |-> FALSE]

\* what simple_run_flow returns
MessageValues ==
    {PyNone, PyDict(EmptyKV), PyDict([text |-> PyNone])}
    \cup {PyDict([text |-> PyStr(x)]) : x \in {T_hi, T_xy, T_sp, T_empty}}
ResultsValues ==
    {PyNone, PyDict(EmptyKV)} \cup {PyDict([message |-> m]) : m \in MessageValues}
FirstDatas ==
    {PyNone, PyDict(EmptyKV)} \cup {PyDict([results |-> r]) : r \in ResultsValues}
OutputDatas == {PyNone, PyList(<<>>)} \cup {PyList(<<d>>) : d \in FirstDatas}
FirstOutputs ==
    {PyNone, PyDict(EmptyKV)} \cup {PyDict([outputs |-> o]) : o \in OutputDatas}
Outputs == {PyNone, PyList(<<>>)} \cup {PyList(<<o>>) : o \in FirstOutputs}
RunResults ==
    {PyNone, PyName("RunResponse"), PyDict(EmptyKV)}
    \cup {PyDict([outputs |-> o]) : o \in Outputs}

-----------------------------------------------------------------------------
(* openai_chat_completions: the handler, step by step *)

NoResponse == [kind |-> "none"]
NotLookedUp == Raised("not called")
NoGenerator == [pc |-> "none", pos |-> 0, exc |-> "none"]
NoResult == [t |-> "unset"]

AdapterInit(requests) ==
    /\ request \in requests
    /\ flow_lookup = NotLookedUp
    /\ flow_mock = NoMock
    /\ pc = "resolve"
    /\ session_id = PyNone
    /\ response = NoResponse
    /\ steps = <<>>
    /\ run_request = PyNone
    /\ result = NoResult
    /\ gen = NoGenerator
    /\ frames = <<>>
    /\ background_tasks = <<>>
    /\ client = "connected"

\* variant of ExceptionAtBoundary without the clause of lines 261-262
Mut_ExceptionAtBoundary(e) == InternalServerError

\* lines 261-266: an HTTPException leaves the handler as it is, any other
\* exception as a 500 with an OpenAI-shaped detail
ExceptionAtBoundary(e) ==
    IF e.kind = "HTTPException" THEN e ELSE InternalServerError

OtherException(name) == [kind |-> name]

\* the handler ends by raising e inside its try block
HandlerRaises(e) ==
    /\ response' = ExceptionAtBoundary(e)
    /\ pc' = "done"

flow == flow_lookup.value

\* variant of FlowNotFound with the status of the other client errors
Mut_FlowNotFound == HTTPException(400, create_openai_error("Flow not found"))

\* lines 118-126
FlowNotFound == HTTPException(404, create_openai_error("Flow not found"))

ResolveFlow ==
    /\ pc = "resolve"
    /\ \E outcome \in FlowLookups :
        /\ flow_lookup' = outcome
        /\ steps' = Append(steps, "get_flow_by_id_or_endpoint_name")
        /\ IF ~outcome.ok THEN HandlerRaises(OtherException(outcome.exc))
           ELSE IF ~Truthy(outcome.value) THEN HandlerRaises(FlowNotFound)
           ELSE pc' = "validate" /\ UNCHANGED response
    /\ UNCHANGED <<request, flow_mock, session_id, run_request, result, gen, frames>>
    /\ UNCHANGED background_tasks
    /\ UNCHANGED client
    /\ UNCHANGED <<logVars, graphVars>>

\* lines 128-133
MissingChatComponents ==
    HTTPException(400, create_openai_error(
        "Flow must have both ChatInput and ChatOutput components for OpenAI compatibility"))

\* variant of ValidateChatComponents with the message check of lines 136-138
\* moved before the component check
Mut_ValidateChatComponents ==
    /\ pc = "validate"
    /\ steps' = Append(steps, "has_chat_components")
    /\ IF request.messages = <<>>
       THEN HandlerRaises(HTTPException(400,
                create_openai_error("At least one message is required")))
       ELSE IF ~has_chat_input(flow.data) \/ ~has_chat_output(flow.data)
       THEN HandlerRaises(MissingChatComponents)
       ELSE pc' = "extract" /\ UNCHANGED response
    /\ UNCHANGED <<request, flow_lookup, flow_mock, session_id, run_request,
                   result, gen, frames>>
    /\ UNCHANGED background_tasks
    /\ UNCHANGED client
    /\ UNCHANGED <<logVars, graphVars>>

ValidateChatComponents ==
    /\ pc = "validate"
    /\ steps' = Append(steps, "has_chat_components")
    /\ IF ~has_chat_input(flow.data) \/ ~has_chat_output(flow.data)
       THEN HandlerRaises(MissingChatComponents)
       ELSE pc' = "extract" /\ UNCHANGED response
    /\ UNCHANGED <<request, flow_lookup, flow_mock, session_id, run_request,
                   result, gen, frames>>
    /\ UNCHANGED background_tasks
    /\ UNCHANGED client
    /\ UNCHANGED <<logVars, graphVars>>

\* variant of NoMessages with the status of a missing flow
Mut_NoMessages == HTTPException(404, create_openai_error("At least one message is required"))

\* lines 136-138
NoMessages == HTTPException(400, create_openai_error("At least one message is required"))

\* variant of message_content that takes the first message
Mut_message_content == request.messages[1].content

\* line 141
message_content == request.messages[Len(request.messages)].content

\* lines 135-144
ExtractLastMessage ==
    /\ pc = "extract"
    /\ steps' = Append(steps, "messages_check")
    /\ IF request.messages = <<>>
       THEN HandlerRaises(NoMessages) /\ UNCHANGED session_id
       ELSE /\ pc' = "telemetry"
            /\ UNCHANGED response
            /\ IF Truthy(request.session_id)
               THEN session_id' = request.session_id
               ELSE \E u \in UUIDs : session_id' = PyName(u)
    /\ UNCHANGED <<request, flow_lookup, flow_mock, run_request, result, gen, frames>>
    /\ UNCHANGED background_tasks
    /\ UNCHANGED client
    /\ UNCHANGED <<logVars, graphVars>>

\* lines 147-151: RunPayload(flow_id=..., flow_name=..., user_id=...) either
\* gives the record or raises (a validation error of the payload model)
RunPayloads == {Returned([flow_id |-> "f1", flow_name |-> "Flow"]),
                Raised("ValidationError")}

\* line 152: background_tasks.add_task(telemetry_service.log_run, run_payload)
add_task(tasks, func, arg) ==
    Append(tasks, [func |-> func, arg |-> arg, state |-> "scheduled"])

\* lines 146-152, inside the try block of lines 117-266
LogTelemetry ==
    /\ pc = "telemetry"
    /\ \E run_payload \in RunPayloads :
        IF ~run_payload.ok
        THEN /\ HandlerRaises(OtherException(run_payload.exc))
             /\ steps' = Append(steps, "RunPayload")
             /\ UNCHANGED background_tasks
        ELSE /\ background_tasks' = add_task(background_tasks, "log_run",
                                             run_payload.value)
             /\ steps' = Append(steps, "add_task")
             /\ pc' = "respond"
             /\ UNCHANGED response
    /\ UNCHANGED <<request, flow_lookup, flow_mock, session_id,
                   run_request, result, gen, frames>>
    /\ UNCHANGED client
    /\ UNCHANGED <<logVars, graphVars>>

\* lines 49-90 with stream=False, awaited at line 212: the run request is
\* built and simple_run_flow is awaited; whatever it raises leaves as
\* HTTPException(500, detail=str(e))
FlowRunFailed == HTTPException(500, PyName("flow run failed"))

\* lines 210-259
RunNonStreaming ==
    /\ pc = "respond"
    /\ ~request.stream
    /\ run_request' = SimplifiedAPIRequest(message_content, session_id, request.tweaks)
    /\ steps' = Append(steps, "simple_run_flow")
    /\ \E outcome \in {Raised("Exception")} \cup {Returned(r) : r \in RunResults} :
        IF ~outcome.ok
        THEN HandlerRaises(FlowRunFailed) /\ UNCHANGED result
        ELSE /\ result' = outcome.value
             /\ LET content == ExtractResponseContent(outcome.value) IN
                IF ~content.ok THEN HandlerRaises(OtherException(content.exc))
                ELSE LET resp == OpenAIResponse(request.model, message_content,
                                                content.value) IN
                     IF ~resp.ok THEN HandlerRaises(OtherException(resp.exc))
                     ELSE /\ response' = [kind        |-> "OpenAIResponsesResponse",
                                          status_code |-> 200,
                                          body        |-> resp.value]
                          /\ pc' = "done"
    /\ UNCHANGED <<request, flow_lookup, flow_mock, session_id, gen, frames>>
    /\ UNCHANGED background_tasks
    /\ UNCHANGED client
    /\ UNCHANGED <<logVars, graphVars>>

\* lines 154-209: the handler returns a StreamingResponse over a new
\* generate_stream() generator; nothing of its body has run yet
ReturnStreamingResponse ==
    /\ pc = "respond"
    /\ request.stream
    /\ \E m \in FlowMocks : flow_mock' = m
    /\ gen' = [pc |-> "created", pos |-> 0, exc |-> "none"]
    /\ response' = [kind |-> "StreamingResponse", status_code |-> 200]
    /\ pc' = "streaming"
    /\ UNCHANGED <<request, flow_lookup, session_id, steps, run_request, result, frames>>
    /\ UNCHANGED background_tasks
    /\ UNCHANGED client
    /\ UNCHANGED <<logVars, graphVars>>

-----------------------------------------------------------------------------
(* generate_stream: one action per frame the transport asks for *)

\* line 179
ContentFrame(model, chunk) ==
    [object  |-> "chat.completion.chunk",
     model   |-> model,
     choices |-> << [index         |-> 0,
                     delta         |-> [content |-> chunk],
                     finish_reason |-> PyNone] >>]

\* line 193
FinalFrame(model) ==
    [object  |-> "chat.completion.chunk",
     model   |-> model,
     choices |-> << [index         |-> 0,
                     delta         |-> EmptyKV,
                     finish_reason |-> PyName("stop")] >>]

\* line 194
DoneFrame == [literal |-> "data: [DONE]"]

\* line 199
ErrorFrame(msg) == create_openai_error(msg)

\* line 158: what the async for statement is given to iterate.
\* run_flow_for_openai_responses is an `async def` without a yield of its own
\* (lines 49-56; the yield of line 77 belongs to the nested stream_generator),
\* so calling it without await gives a coroutine object.
IterableOfLine158 == "coroutine"

\* `async for` needs an object with __aiter__; it raises TypeError otherwise
HasAiter(obj) == obj = "async_generator"

\* lines 70-77, stream_generator: the position of the next chunk of the flow
\* that is truthy, after position i; 0 when the flow has no more
RECURSIVE NextTruthyChunk(_, _)
NextTruthyChunk(chunks, i) ==
    IF i >= Len(chunks) THEN 0
    ELSE IF Truthy(chunks[i + 1]) THEN i + 1
    ELSE NextTruthyChunk(chunks, i + 1)

\* variant of CaughtByExcept: `except HTTPException`
Mut_CaughtByExcept(e) == e \in {"HTTPException"}

\* line 196: `except Exception` catches the subclasses of Exception, not the
\* other subclasses of BaseException (CancelledError, GeneratorExit)
CaughtByExcept(e) == e \in {"Exception", "TypeError", "HTTPException"}

\* lines 196-199: exception e is raised inside the try block; the except
\* clause yields one error frame made of str(e)
RaisedInStream(e, msg) ==
    IF CaughtByExcept(e)
    THEN /\ frames' = Append(frames, ErrorFrame(msg))
         /\ gen' = [gen EXCEPT !.pc = "yielded_error", !.exc = e]
    ELSE /\ frames' = frames
         /\ gen' = [gen EXCEPT !.pc = "raised", !.exc = e]

\* lines 158-166: the position of the next chunk stream_generator hands over
\* that passes the `if chunk:` of the loop body, after position i; 0 when the
\* iteration ends
RECURSIVE NextFramedChunk(_, _)
NextFramedChunk(chunks, i) ==
    LET j == NextTruthyChunk(chunks, i) IN
    IF j = 0 THEN 0
    ELSE IF Truthy(chunks[j]) THEN j
    ELSE NextFramedChunk(chunks, j)

\* lines 158-193: the loop runs until its next yield
LoopStep ==
    LET j == NextFramedChunk(flow_mock.chunks, gen.pos) IN
    IF j # 0
    THEN /\ frames' = Append(frames, ContentFrame(request.model, flow_mock.chunks[j]))
         /\ gen' = [gen EXCEPT !.pc = "yielded_chunk", !.pos = j]
    ELSE IF flow_mock.fails
    THEN RaisedInStream("Exception", "flow run failed")
    ELSE /\ frames' = Append(frames, FinalFrame(request.model))
         /\ gen' = [gen EXCEPT !.pc = "yielded_final"]

\* the transport calls __anext__ on the generator
StreamNext ==
    /\ pc = "streaming"
    /\ gen.pc \notin {"none", "closed", "raised", "cancelled"}
    /\ CASE gen.pc = "created" ->
              IF ~HasAiter(IterableOfLine158)
              THEN /\ RaisedInStream("TypeError",
                        "'async for' requires an object with __aiter__ method, got coroutine")
                   /\ UNCHANGED <<steps, run_request>>
              ELSE /\ run_request' = SimplifiedAPIRequest(message_content, session_id,
                                                          request.tweaks)
                   /\ steps' = Append(steps, "run_flow_generator")
                   /\ LoopStep
         [] gen.pc = "yielded_chunk" ->
              LoopStep /\ UNCHANGED <<steps, run_request>>
         [] gen.pc = "yielded_final" ->
              /\ frames' = Append(frames, DoneFrame)
              /\ gen' = [gen EXCEPT !.pc = "yielded_done"]
              /\ UNCHANGED <<steps, run_request>>
         [] gen.pc \in {"yielded_done", "yielded_error"} ->
              /\ gen' = [gen EXCEPT !.pc = "closed"]
              /\ UNCHANGED <<frames, steps, run_request>>
    /\ UNCHANGED <<request, flow_lookup, flow_mock, pc, session_id, response, result>>
    /\ UNCHANGED background_tasks
    /\ UNCHANGED client
    /\ UNCHANGED <<logVars, graphVars>>

\* the yields inside the try block of lines 157-194, and the yield of the
\* except clause (line 199)
YieldsInTry == {"yielded_chunk", "yielded_final", "yielded_done"}
Suspended == {"created"} \cup YieldsInTry \cup {"yielded_error"}

\* variant of aclose: the close does not reach the generator
Mut_aclose(g) == g

\* generate_stream is closed where it is suspended.  A generator that has
\* not started just ends; otherwise GeneratorExit is raised at the yield, and
\* the except clause of line 196 gets it when the yield is inside the try
\* block (lines 157-194) and the clause catches it
aclose(g) ==
    IF g.pc \in YieldsInTry /\ CaughtByExcept("GeneratorExit")
    THEN [g EXCEPT !.pc = "yielded_error", !.exc = "GeneratorExit"]
    ELSE [g EXCEPT !.pc = "cancelled"]

\* the client disconnects while the response is streamed: the transport
\* closes the generator
CloseStream ==
    /\ pc = "streaming"
    /\ client = "connected"
    /\ gen.pc \in Suspended
    /\ client' = "disconnected"
    /\ gen' = aclose(gen)
    /\ frames' = IF gen'.pc = "yielded_error"
                 THEN Append(frames, ErrorFrame("GeneratorExit"))
                 ELSE frames
    /\ UNCHANGED <<request, flow_lookup, flow_mock, pc, session_id, response,
                   steps, run_request, result, background_tasks>>
    /\ UNCHANGED <<logVars, graphVars>>

\* the response has been handed over: a response object was returned and, for
\* a StreamingResponse, its body has ended
ResponseSent ==
    \/ pc = "done" /\ response.kind = "OpenAIResponsesResponse"
    \/ pc = "streaming" /\ gen.pc \in {"closed", "raised", "cancelled"}

\* line 152: the tasks added to BackgroundTasks run after the response has
\* been sent; log_run ends normally or raises
RunBackgroundTasks ==
    /\ ResponseSent
    /\ background_tasks # <<>>
    /\ background_tasks[1].state = "scheduled"
    /\ \E outcome \in {"done", "failed"} :
          background_tasks' = [background_tasks EXCEPT ![1].state = outcome]
    /\ UNCHANGED <<request, flow_lookup, flow_mock, pc, session_id, response,
                   steps, run_request, result, gen, frames>>
    /\ UNCHANGED client
    /\ UNCHANGED <<logVars, graphVars>>

AdapterNext ==
    \/ ResolveFlow
    \/ ValidateChatComponents
    \/ ExtractLastMessage
    \/ LogTelemetry
    \/ RunNonStreaming
    \/ ReturnStreamingResponse
    \/ StreamNext
    \/ CloseStream
    \/ RunBackgroundTasks

-----------------------------------------------------------------------------
(* logger.py: SizedLogBuffer, used by the threads DOMAIN th *)

NThreads == 2
MaxItems == 4
MaxItemsThreads == 2
MaxSize == 2

\* SizedLogBuffer(max_readers=...): the permits of the read semaphore
max_readers == 1

NoThread == 0
Threads == DOMAIN th
Idle == [op |-> "idle"]

\* the items callers hand to the buffer: the k-th item created is Item(k)
Item(k) == [item |-> k]

\* write(message): the message is the JSON text of a log record, the entry
\* stored is {"timestamp": int(timestamp * 1000), "message": text}
LogMessage(k) == [text |-> k, record |-> [time |-> [timestamp |-> k]]]
LogEntry(message) ==
    [timestamp |-> message.record.time.timestamp * 1000, message |-> message.text]

\* the environment variable AXIESTUDIO_LOG_RETRIEVER_BUFFER_SIZE: unset, a
\* text that is not a number, or the digits of a number
EnvUnset == [set |-> FALSE]
EnvText == [set |-> TRUE, isdigit |-> FALSE]
EnvDigits(n) == [set |-> TRUE, isdigit |-> TRUE, n |-> n]
EnvValues == {EnvUnset, EnvText} \cup {EnvDigits(n) : n \in 0..MaxSize}

\* os.getenv(name, "0")
Getenv(e) == IF e.set THEN e ELSE EnvDigits(0)

\* lines 120-127, the getter of max: the value of _max it leaves and returns
MaxGetter(m, e) ==
    IF m = 0
    THEN (IF Getenv(e).isdigit THEN Getenv(e).n ELSE m)
    ELSE m

\* history: hist.size_set is the size set_log_buffer_size was last called
\* with since the environment was last changed
SizeNotSet == [set |-> FALSE]
SizeSet(size) == [set |-> TRUE, size |-> size]

LogInit ==
    /\ buffer = <<>>
    /\ max_ = 0
    /\ environ \in EnvValues
    /\ wlock = NoThread
    /\ rsem = max_readers
    /\ hist \in [created : {0}, appended : {<<>>}, budget : {MaxItems, MaxItemsThreads},
                  size_set : {SizeNotSet}]

\* a caller may create another item
CanCreate(n) == hist.created + n <= hist.budget

\* history: hist.created counts the items created so far, of the hist.budget
\* items the callers may create in a run; hist.appended is
\* the run of items put at the right end by write, append and extend since the
\* buffer was last modified in another way or its capacity was last set
AppendedRun(x) == [hist EXCEPT !.appended = Append(@, x)]
RunBroken == [hist EXCEPT !.appended = <<>>]

(* ---- calls: a thread enters a method ---- *)

\* the frame of a call of write, append, appendleft, extend or extendleft:
\* the items still to insert; as history, all the items of the call, the
\* buffer as it was when the call took the write lock and the number of
\* changes the call has made to the buffer
InsertCall(op, items) ==
    [op |-> op, pc |-> "lock", items |-> items,
     all |-> items, before |-> <<>>, applied |-> 0]

Call_write(t) ==
    /\ th[t] = Idle
    /\ CanCreate(1)
    /\ th' = [th EXCEPT ![t] = InsertCall("write",
                                <<LogEntry(LogMessage(hist.created + 1))>>)]
    /\ hist' = [hist EXCEPT !.created = @ + 1]
    /\ UNCHANGED <<buffer, max_, environ, wlock, rsem>>
    /\ UNCHANGED <<adapterVars, graphVars>>

Call_append(t) ==
    /\ th[t] = Idle
    /\ CanCreate(1)
    /\ th' = [th EXCEPT ![t] = InsertCall("append",
                                <<Item(hist.created + 1)>>)]
    /\ hist' = [hist EXCEPT !.created = @ + 1]
    /\ UNCHANGED <<buffer, max_, environ, wlock, rsem>>
    /\ UNCHANGED <<adapterVars, graphVars>>

Call_appendleft(t) ==
    /\ th[t] = Idle
    /\ CanCreate(1)
    /\ th' = [th EXCEPT ![t] = InsertCall("appendleft",
                                <<Item(hist.created + 1)>>)]
    /\ hist' = [hist EXCEPT !.created = @ + 1]
    /\ UNCHANGED <<buffer, max_, environ, wlock, rsem>>
    /\ UNCHANGED <<adapterVars, graphVars>>

Call_extend(t) ==
    /\ th[t] = Idle
    /\ \E n \in 0..2 :
        /\ CanCreate(n)
        /\ th' = [th EXCEPT ![t] = InsertCall("extend",
                     [i \in 1..n |-> Item(hist.created + i)])]
        /\ hist' = [hist EXCEPT !.created = @ + n]
    /\ UNCHANGED <<buffer, max_, environ, wlock, rsem>>
    /\ UNCHANGED <<adapterVars, graphVars>>

Call_extendleft(t) ==
    /\ th[t] = Idle
    /\ \E n \in 0..2 :
        /\ CanCreate(n)
        /\ th' = [th EXCEPT ![t] = InsertCall("extendleft",
                     [i \in 1..n |-> Item(hist.created + i)])]
        /\ hist' = [hist EXCEPT !.created = @ + n]
    /\ UNCHANGED <<buffer, max_, environ, wlock, rsem>>
    /\ UNCHANGED <<adapterVars, graphVars>>

Call_pop(t) ==
    /\ th[t] = Idle
    /\ th' = [th EXCEPT ![t] = [op |-> "pop", pc |-> "lock"]]
    /\ UNCHANGED <<buffer, max_, environ, wlock, rsem, hist>>
    /\ UNCHANGED <<adapterVars, graphVars>>

Call_popleft(t) ==
    /\ th[t] = Idle
    /\ th' = [th EXCEPT ![t] = [op |-> "popleft", pc |-> "lock"]]
    /\ UNCHANGED <<buffer, max_, environ, wlock, rsem, hist>>
    /\ UNCHANGED <<adapterVars, graphVars>>

Call_clear(t) ==
    /\ th[t] = Idle
    /\ th' = [th EXCEPT ![t] = [op |-> "clear", pc |-> "lock"]]
    /\ UNCHANGED <<buffer, max_, environ, wlock, rsem, hist>>
    /\ UNCHANGED <<adapterVars, graphVars>>

Call_read(t) ==
    /\ th[t] = Idle
    /\ th' = [th EXCEPT ![t] = [op |-> "read", pc |-> "semaphore"]]
    /\ UNCHANGED <<buffer, max_, environ, wlock, rsem, hist>>
    /\ UNCHANGED <<adapterVars, graphVars>>

Call_setitem(t) ==
    /\ th[t] = Idle
    /\ CanCreate(1)
    /\ \E index \in 0..MaxSize :
        th' = [th EXCEPT ![t] = [op |-> "setitem", pc |-> "body", index |-> index,
                                 items |-> <<Item(hist.created + 1)>>]]
    /\ hist' = [hist EXCEPT !.created = @ + 1]
    /\ UNCHANGED <<buffer, max_, environ, wlock, rsem>>
    /\ UNCHANGED <<adapterVars, graphVars>>

Call_delitem(t) ==
    /\ th[t] = Idle
    /\ \E index \in 0..MaxSize :
        th' = [th EXCEPT ![t] = [op |-> "delitem", pc |-> "body", index |-> index]]
    /\ UNCHANGED <<buffer, max_, environ, wlock, rsem, hist>>
    /\ UNCHANGED <<adapterVars, graphVars>>

(* ---- steps of the methods ---- *)

LockedOps == {"write", "append", "appendleft", "extend", "extendleft",
              "pop", "popleft", "clear"}
InsertOps == {"write", "append", "appendleft", "extend", "extendleft"}
RightOps == {"write", "append", "extend"}

\* the method returns or raises; a `with` block releases what it holds
Leave(t) == th' = [th EXCEPT ![t] = Idle]

\* `with self._wlock:` (lines 49, 59, 87, 93, 99, 103, 107, 114)
AcquireWLock(t) ==
    /\ th[t].op \in LockedOps
    /\ th[t].pc = "lock"
    /\ wlock = NoThread
    /\ wlock' = t
    /\ th' = [th EXCEPT ![t] =
                 IF th[t].op \in {"write", "append", "appendleft"}
                 THEN [@ EXCEPT !.pc = "check", !.before = buffer]
                 ELSE IF th[t].op \in {"extend", "extendleft"}
                 THEN [@ EXCEPT !.pc = "loop", !.before = buffer]
                 ELSE [@ EXCEPT !.pc = "body"]]
    /\ UNCHANGED <<buffer, max_, environ, rsem, hist>>
    /\ UNCHANGED <<adapterVars, graphVars>>

\* `for item in iterable:` (lines 108, 115): the next item, or the end of
\* the with block
ExtendLoop(t) ==
    /\ th[t].op \in {"extend", "extendleft"}
    /\ th[t].pc = "loop"
    /\ IF th[t].items = <<>>
       THEN Leave(t) /\ wlock' = NoThread
       ELSE th' = [th EXCEPT ![t].pc = "check"] /\ UNCHANGED wlock
    /\ UNCHANGED <<buffer, max_, environ, rsem, hist>>
    /\ UNCHANGED <<adapterVars, graphVars>>

\* `if len(self.buffer) >= self.max:` (lines 50, 88, 94, 109, 116); reading
\* max runs its getter
CheckFull(t) ==
    /\ th[t].op \in InsertOps
    /\ th[t].pc = "check"
    /\ max_' = MaxGetter(max_, environ)
    /\ th' = [th EXCEPT ![t].pc = IF Len(buffer) >= max_' THEN "evict" ELSE "insert"]
    /\ UNCHANGED <<buffer, environ, wlock, rsem, hist>>
    /\ UNCHANGED <<adapterVars, graphVars>>

\* deque.popleft() and deque.pop(); both raise IndexError on an empty deque
PopLeft(b) == SubSeq(b, 2, Len(b))
\* variant of PopRight that takes the entry away at the left end
Mut_PopRight(b) == SubSeq(b, 2, Len(b))
PopRight(b) == SubSeq(b, 1, Len(b) - 1)

\* lines 51, 89, 110: self.buffer.popleft(); lines 95, 117: self.buffer.pop()
Evict(t) ==
    /\ th[t].op \in InsertOps
    /\ th[t].pc = "evict"
    /\ IF buffer = <<>>
       THEN /\ Leave(t)
            /\ wlock' = NoThread
            /\ UNCHANGED buffer
       ELSE /\ buffer' = IF th[t].op \in RightOps THEN PopLeft(buffer) ELSE PopRight(buffer)
            /\ th' = [th EXCEPT ![t].pc = "insert", ![t].applied = @ + 1]
            /\ UNCHANGED wlock
    /\ hist' = IF th[t].op \in RightOps \/ buffer = <<>> THEN hist ELSE RunBroken
    /\ UNCHANGED <<max_, environ, rsem>>
    /\ UNCHANGED <<adapterVars, graphVars>>

\* lines 52, 90, 111: self.buffer.append(item); lines 96, 118:
\* self.buffer.appendleft(item)
Insert(t) ==
    /\ th[t].op \in InsertOps
    /\ th[t].pc = "insert"
    /\ LET x == Head(th[t].items) IN
       /\ buffer' = IF th[t].op \in RightOps THEN Append(buffer, x) ELSE <<x>> \o buffer
       /\ hist' = IF th[t].op \in RightOps THEN AppendedRun(x) ELSE RunBroken
    /\ IF th[t].op \in {"extend", "extendleft"}
       THEN /\ th' = [th EXCEPT ![t].pc = "loop", ![t].items = Tail(@),
                                  ![t].applied = @ + 1]
            /\ UNCHANGED wlock
       ELSE Leave(t) /\ wlock' = NoThread
    /\ UNCHANGED <<max_, environ, rsem>>
    /\ UNCHANGED <<adapterVars, graphVars>>

\* variant of Remove that keeps the write lock when the deque raises
Mut_Remove(t) ==
    /\ th[t].op \in {"pop", "popleft"}
    /\ th[t].pc = "body"
    /\ buffer' = IF buffer = <<>> THEN buffer
                 ELSE IF th[t].op = "pop" THEN PopRight(buffer) ELSE PopLeft(buffer)
    /\ hist' = IF buffer = <<>> THEN hist ELSE RunBroken
    /\ Leave(t)
    /\ wlock' = IF buffer = <<>> THEN wlock ELSE NoThread
    /\ UNCHANGED <<max_, environ, rsem>>
    /\ UNCHANGED <<adapterVars, graphVars>>

\* lines 98-104: pop and popleft
Remove(t) ==
    /\ th[t].op \in {"pop", "popleft"}
    /\ th[t].pc = "body"
    /\ buffer' = IF buffer = <<>> THEN buffer
                 ELSE IF th[t].op = "pop" THEN PopRight(buffer) ELSE PopLeft(buffer)
    /\ hist' = IF buffer = <<>> THEN hist ELSE RunBroken
    /\ Leave(t)
    /\ wlock' = NoThread
    /\ UNCHANGED <<max_, environ, rsem>>
    /\ UNCHANGED <<adapterVars, graphVars>>

\* lines 58-60
Clear(t) ==
    /\ th[t].op = "clear"
    /\ th[t].pc = "body"
    /\ buffer' = <<>>
    /\ hist' = RunBroken
    /\ Leave(t)
    /\ wlock' = NoThread
    /\ UNCHANGED <<max_, environ, rsem>>
    /\ UNCHANGED <<adapterVars, graphVars>>

\* deque item access with an index from 0; IndexError when out of range
InRange(b, index) == index < Len(b)
DelAt(b, index) == SubSeq(b, 1, index) \o SubSeq(b, index + 2, Len(b))

\* lines 74-75: __setitem__ takes no lock
SetItem(t) ==
    /\ th[t].op = "setitem"
    /\ th[t].pc = "body"
    /\ IF InRange(buffer, th[t].index)
       THEN /\ buffer' = [buffer EXCEPT ![th[t].index + 1] = Head(th[t].items)]
            /\ hist' = RunBroken
       ELSE UNCHANGED <<buffer, hist>>
    /\ Leave(t)
    /\ UNCHANGED <<max_, environ, wlock, rsem>>
    /\ UNCHANGED <<adapterVars, graphVars>>

\* lines 77-78: __delitem__ takes no lock
DelItem(t) ==
    /\ th[t].op = "delitem"
    /\ th[t].pc = "body"
    /\ IF InRange(buffer, th[t].index)
       THEN /\ buffer' = DelAt(buffer, th[t].index)
            /\ hist' = RunBroken
       ELSE UNCHANGED <<buffer, hist>>
    /\ Leave(t)
    /\ UNCHANGED <<max_, environ, wlock, rsem>>
    /\ UNCHANGED <<adapterVars, graphVars>>

\* line 55: `with self._rsemaphore:`
AcquireRSemaphore(t) ==
    /\ th[t].op = "read"
    /\ th[t].pc = "semaphore"
    /\ rsem > 0
    /\ rsem' = rsem - 1
    /\ th' = [th EXCEPT ![t].pc = "copy"]
    /\ UNCHANGED <<buffer, max_, environ, wlock, hist>>
    /\ UNCHANGED <<adapterVars, graphVars>>

\* line 56: return list(self.buffer), leaving the with block
ReadCopy(t) ==
    /\ th[t].op = "read"
    /\ th[t].pc = "copy"
    /\ rsem' = rsem + 1
    /\ Leave(t)
    /\ UNCHANGED <<buffer, max_, environ, wlock, hist>>
    /\ UNCHANGED <<adapterVars, graphVars>>

\* lines 309-310 and 129-131: set_log_buffer_size(size) assigns _max
set_log_buffer_size(t) ==
    /\ th[t] = Idle
    /\ \E size \in 0..MaxSize :
        /\ max_' = size
        /\ hist' = [RunBroken EXCEPT !.size_set = SizeSet(size)]
    /\ UNCHANGED <<buffer, environ, wlock, rsem, th>>
    /\ UNCHANGED <<adapterVars, graphVars>>

\* lines 133-137: enabled() and max_size() read max
max_size(t) ==
    /\ th[t] = Idle
    /\ max_' = MaxGetter(max_, environ)
    /\ max_' # max_
    /\ UNCHANGED <<buffer, environ, wlock, rsem, th, hist>>
    /\ UNCHANGED <<adapterVars, graphVars>>

\* the process environment is changed
SetEnviron(t) ==
    /\ th[t] = Idle
    /\ \E e \in EnvValues : environ' = e /\ e # environ
    /\ hist' = [RunBroken EXCEPT !.size_set = SizeNotSet]
    /\ UNCHANGED <<buffer, max_, wlock, rsem, th>>
    /\ UNCHANGED <<adapterVars, graphVars>>

LogNext ==
    \/ \E t \in Threads : Call_write(t)
    \/ \E t \in Threads : Call_append(t)
    \/ \E t \in Threads : Call_appendleft(t)
    \/ \E t \in Threads : Call_extend(t)
    \/ \E t \in Threads : Call_extendleft(t)
    \/ \E t \in Threads : Call_pop(t)
    \/ \E t \in Threads : Call_popleft(t)
    \/ \E t \in Threads : Call_clear(t)
    \/ \E t \in Threads : Call_read(t)
    \/ \E t \in Threads : Call_setitem(t)
    \/ \E t \in Threads : Call_delitem(t)
    \/ \E t \in Threads : AcquireWLock(t)
    \/ \E t \in Threads : ExtendLoop(t)
    \/ \E t \in Threads : CheckFull(t)
    \/ \E t \in Threads : Evict(t)
    \/ \E t \in Threads : Insert(t)
    \/ \E t \in Threads : Remove(t)
    \/ \E t \in Threads : Clear(t)
    \/ \E t \in Threads : SetItem(t)
    \/ \E t \in Threads : DelItem(t)
    \/ \E t \in Threads : AcquireRSemaphore(t)
    \/ \E t \in Threads : ReadCopy(t)
    \/ \E t \in Threads : set_log_buffer_size(t)
    \/ \E t \in Threads : max_size(t)
    \/ \E t \in Threads : SetEnviron(t)

\* the calls of write, append, appendleft, extend, extendleft, pop, popleft,
\* clear and read alone: nothing assigns max and the environment stays as it is
LogFixedNext ==
    \/ \E t \in Threads : Call_write(t)
    \/ \E t \in Threads : Call_append(t)
    \/ \E t \in Threads : Call_appendleft(t)
    \/ \E t \in Threads : Call_extend(t)
    \/ \E t \in Threads : Call_extendleft(t)
    \/ \E t \in Threads : Call_pop(t)
    \/ \E t \in Threads : Call_popleft(t)
    \/ \E t \in Threads : Call_clear(t)
    \/ \E t \in Threads : Call_read(t)
    \/ \E t \in Threads : AcquireWLock(t)
    \/ \E t \in Threads : ExtendLoop(t)
    \/ \E t \in Threads : CheckFull(t)
    \/ \E t \in Threads : Evict(t)
    \/ \E t \in Threads : Insert(t)
    \/ \E t \in Threads : Remove(t)
    \/ \E t \in Threads : Clear(t)
    \/ \E t \in Threads : AcquireRSemaphore(t)
    \/ \E t \in Threads : ReadCopy(t)

\* the calls of every method of the buffer, with the capacity left alone
LogLiveNext ==
    \/ \E t \in Threads : Call_write(t)
    \/ \E t \in Threads : Call_append(t)
    \/ \E t \in Threads : Call_appendleft(t)
    \/ \E t \in Threads : Call_extend(t)
    \/ \E t \in Threads : Call_extendleft(t)
    \/ \E t \in Threads : Call_pop(t)
    \/ \E t \in Threads : Call_popleft(t)
    \/ \E t \in Threads : Call_clear(t)
    \/ \E t \in Threads : Call_read(t)
    \/ \E t \in Threads : Call_setitem(t)
    \/ \E t \in Threads : Call_delitem(t)
    \/ \E t \in Threads : AcquireWLock(t)
    \/ \E t \in Threads : ExtendLoop(t)
    \/ \E t \in Threads : CheckFull(t)
    \/ \E t \in Threads : Evict(t)
    \/ \E t \in Threads : Insert(t)
    \/ \E t \in Threads : Remove(t)
    \/ \E t \in Threads : Clear(t)
    \/ \E t \in Threads : SetItem(t)
    \/ \E t \in Threads : DelItem(t)
    \/ \E t \in Threads : AcquireRSemaphore(t)
    \/ \E t \in Threads : ReadCopy(t)

\* a step of thread t inside a method, once it holds what the method waits for
RunningStep(t) ==
    \/ ExtendLoop(t)
    \/ CheckFull(t)
    \/ Evict(t)
    \/ Insert(t)
    \/ Remove(t)
    \/ Clear(t)
    \/ SetItem(t)
    \/ DelItem(t)
    \/ ReadCopy(t)

\* fair scheduling: a thread that can take a step inside a method takes it,
\* and a thread waiting for the write lock or for a permit of the read
\* semaphore gets it when it is free again and again
FairScheduling ==
    \A t \in 1..NThreads :
        /\ WF_vars(RunningStep(t))
        /\ SF_vars(AcquireWLock(t))
        /\ SF_vars(AcquireRSemaphore(t))

-----------------------------------------------------------------------------
(* axf.graph: Graph.build(), from the specification of the Graph component *)

MaxVertices == 3

VertexIds == 1..MaxVertices

\* an edge connects a source vertex to a target vertex, which it feeds
Edge(source, target) == [source |-> source, target |-> target]

\* a Graph owns vertices and edges; both ends of an edge are vertices of it
EdgesOver(V) == {Edge(v, w) : v \in V, w \in V}

NotBuilt == [pc |-> "idle", order |-> <<>>]

\* a graph with vertices among ids and any edges between them, not yet built
GraphInit(ids) ==
    /\ \E V \in SUBSET ids :
          \E E \in SUBSET EdgesOver(V) : graph = [vertices |-> V, edges |-> E]
    /\ build = NotBuilt

\* variant of Dependencies: the vertices the vertex feeds
Mut_Dependencies(g, v) == {e.target : e \in {x \in g.edges : x.source = v}}

\* the vertices a vertex depends on: those feeding one of its input ports
Dependencies(g, v) == {e.source : e \in {x \in g.edges : x.target = v}}

\* the edge set can be linearized: taking away, again and again, the vertices
\* all of whose dependencies are gone leaves no vertex
RECURSIVE Linearizable(_, _)
Linearizable(g, gone) ==
    LET ready == {v \in g.vertices \ gone : Dependencies(g, v) \subseteq gone}
    IN  IF gone = g.vertices THEN TRUE
        ELSE IF ready = {} THEN FALSE
        ELSE Linearizable(g, gone \cup ready)

Built == {build.order[i] : i \in 1..Len(build.order)}

\* build() begins: an edge set that cannot be linearized is rejected before
\* any vertex is built
BuildStart ==
    /\ build.pc = "idle"
    /\ build' = [build EXCEPT !.pc = IF Linearizable(graph, {}) THEN "building"
                                      ELSE "structural_error"]
    /\ UNCHANGED graph
    /\ UNCHANGED <<adapterVars, logVars>>

\* a vertex is built once every vertex it depends on has been built
BuildVertex ==
    /\ build.pc = "building"
    /\ \E v \in graph.vertices \ Built :
        /\ Dependencies(graph, v) \subseteq Built
        /\ build' = [build EXCEPT !.order = Append(@, v)]
    /\ UNCHANGED graph
    /\ UNCHANGED <<adapterVars, logVars>>

\* build() ends when every vertex has been built
BuildEnd ==
    /\ build.pc = "building"
    /\ Built = graph.vertices
    /\ build' = [build EXCEPT !.pc = "built"]
    /\ UNCHANGED graph
    /\ UNCHANGED <<adapterVars, logVars>>

GraphNext ==
    \/ BuildStart
    \/ BuildVertex
    \/ BuildEnd

-----------------------------------------------------------------------------
(* Specifications *)

\* the adapter handles one request; the log buffer is left alone
AdapterSpecInit == AdapterInit(Requests) /\ LogInit /\ environ = EnvUnset /\ hist.budget = MaxItems
                               /\ th = [t \in 1..1 |-> Idle]
                               /\ GraphInit({})

Spec == AdapterSpecInit /\ [][AdapterNext]_vars

\* the log buffer used by one thread: every method runs to its end before
\* the next is called
LogSeqInit == LogInit /\ th = [t \in 1..1 |-> Idle] /\ hist.budget = MaxItems
                      /\ AdapterInit({CHOOSE r \in Requests : TRUE})
                      /\ GraphInit({})

LogSeqSpec == LogSeqInit /\ [][LogNext]_vars

\* the log buffer used by NThreads threads
LogInitThreads == LogInit /\ th = [t \in 1..NThreads |-> Idle]
                          /\ hist.budget = MaxItemsThreads
                          /\ AdapterInit({CHOOSE r \in Requests : TRUE})
                          /\ GraphInit({})

LogSpec == LogInitThreads /\ [][LogNext]_vars

\* the log buffer used by NThreads threads under fair scheduling, with the
\* capacity the environment gives it at the start
LogLiveSpec == LogInitThreads /\ [][LogLiveNext]_vars /\ FairScheduling

\* the log buffer used by one thread, with its capacity left alone
LogFixedSpec == LogSeqInit /\ [][LogFixedNext]_vars

\* one call of build() on a graph
GraphSpecInit == GraphInit(VertexIds)
                 /\ AdapterInit({CHOOSE r \in Requests : TRUE})
                 /\ LogInit /\ environ = EnvUnset /\ hist.budget = MaxItems
                 /\ th = [t \in 1..1 |-> Idle]

GraphSpec == GraphSpecInit /\ [][GraphNext]_vars

-----------------------------------------------------------------------------
(* Properties of the adapter, checked under Spec *)

StreamEnded == pc = "streaming" /\ gen.pc \in {"closed", "raised"}

\* the shapes of the frames of a stream
IsChunkFrame(f) == "choices" \in DOMAIN f
IsContentFrame(f) ==
    /\ IsChunkFrame(f)
    /\ Len(f.choices) = 1
    /\ DOMAIN f.choices[1].delta = {"content"}
    /\ f.choices[1].finish_reason = PyNone
IsStopFrame(f) ==
    /\ IsChunkFrame(f)
    /\ Len(f.choices) = 1
    /\ DOMAIN f.choices[1].delta = {}
    /\ f.choices[1].finish_reason = PyName("stop")
IsDoneFrame(f) == f = [literal |-> "data: [DONE]"]

\* {error: {message, type, param, code}}
IsOpenAIError(d) ==
    /\ "t" \in DOMAIN d
    /\ d.t = "dict"
    /\ DOMAIN d.kv = {"error"}
    /\ d.kv.error.t = "dict"
    /\ DOMAIN d.kv.error.kv = {"message", "type", "param", "code"}

NonEmptyChunks(m) == \A i \in 1..Len(m.chunks) : m.chunks[i] # PyStr(T_empty)

\* C1: a stream whose flow yields the non-empty chunks c1..cn and ends is
\* exactly n content frames carrying c1..cn, then one stop frame, then the
\* terminator line
C1_ChunksThenStopThenDone ==
    (StreamEnded /\ ~flow_mock.fails /\ NonEmptyChunks(flow_mock))
    => LET n == Len(flow_mock.chunks) IN
       /\ Len(frames) = n + 2
       /\ \A i \in 1..n : /\ IsContentFrame(frames[i])
                          /\ frames[i].choices[1].delta.content = flow_mock.chunks[i]
       /\ IsStopFrame(frames[n + 1])
       /\ IsDoneFrame(frames[n + 2])

\* C2: every stream that has ended has the stop frame and then the terminator
\* line as its last two frames
C2_StopAndDoneAreLast ==
    StreamEnded
    => /\ Len(frames) >= 2
       /\ IsStopFrame(frames[Len(frames) - 1])
       /\ IsDoneFrame(frames[Len(frames)])

ErrorFramePositions == {i \in 1..Len(frames) : IsOpenAIError(frames[i])}

\* C3: an exception raised while the stream is generated never leaves the
\* generator; it becomes exactly one error-shaped frame, which stays the last
\* frame of the stream
C3_ExceptionBecomesOneErrorFrame ==
    /\ gen.pc # "raised"
    /\ gen.exc # "none"
       => /\ gen.pc \in {"yielded_error", "closed", "cancelled"}
          /\ ErrorFramePositions = {Len(frames)}
    /\ gen.exc = "none" => ErrorFramePositions = {}

C3_Witness ==
    /\ gen.pc = "closed"
    /\ gen.exc # "none"
    /\ Len(frames) = 1
    /\ IsOpenAIError(frames[1])

\* the type tags of the nodes of persisted flow data; none when the data is
\* missing or has no nodes list
TypeTagsOf(data) ==
    IF data.t = "dict" /\ "nodes" \in DOMAIN data.kv
    THEN {n.kv.data.kv.type.n :
            n \in {m \in {data.kv.nodes.items[i] : i \in 1..Len(data.kv.nodes.items)} :
                      "data" \in DOMAIN m.kv /\ "type" \in DOMAIN m.kv.data.kv}}
    ELSE {}

LacksChatComponent(data) ==
    \/ TypeTagsOf(data) \cap {"ChatInput", "Chat Input"} = {}
    \/ TypeTagsOf(data) \cap {"ChatOutput", "Chat Output"} = {}

FlowResolved == flow_lookup.ok /\ flow_lookup.value # PyNone

NoFlowExecution ==
    /\ \A i \in 1..Len(steps) : steps[i] \notin {"simple_run_flow", "run_flow_generator"}
    /\ run_request = PyNone
    /\ result = NoResult
    /\ gen = NoGenerator
    /\ frames = <<>>

C5_ErrorBodiesAreOpenAIShaped ==
    /\ response.kind = "HTTPException" => IsOpenAIError(response.detail)
    /\ \A i \in 1..Len(frames) :
          IsChunkFrame(frames[i]) \/ IsDoneFrame(frames[i]) \/ IsOpenAIError(frames[i])

\* results of simple_run_flow, built level by level:
\* {outputs: [{outputs: [{results: {message: ...}}]}]}
InResults(results) ==
    PyDict([outputs |-> PyList(<<
        PyDict([outputs |-> PyList(<< PyDict([results |-> results]) >>)]) >>)])
ResultWithText(x) == InResults(PyDict([message |-> PyDict([text |-> PyStr(x)])]))

\* the results in which a level is absent or empty: the result is not a dict,
\* has no outputs, has an empty outputs list, its first output has no outputs
\* or an empty list of them, the first of those has no results, the results
\* have no message, the message has no text
ResultsLackingALevel ==
    {PyNone,
     PyName("RunResponse"),
     PyDict(EmptyKV),
     PyDict([outputs |-> PyList(<<>>)]),
     PyDict([outputs |-> PyList(<< PyDict(EmptyKV) >>)]),
     PyDict([outputs |-> PyList(<< PyDict([outputs |-> PyList(<<>>)]) >>)]),
     PyDict([outputs |-> PyList(<< PyDict([outputs |-> PyList(<< PyDict(EmptyKV) >>)]) >>)]),
     InResults(PyDict(EmptyKV)),
     InResults(PyDict([message |-> PyDict(EmptyKV)]))}

RespondedWithContent(x) ==
    /\ pc = "done"
    /\ response.kind = "OpenAIResponsesResponse"
    /\ response.status_code = 200
    /\ Len(response.body.choices) = 1
    /\ response.body.choices[1].message.content = PyStr(x)

\* C6: without streaming, once the flow has returned, the response has one
\* choice whose content is the text of the result when every level is there,
\* and the empty text when a level is absent or empty; the call does not fail
C6_ContentIsTextOrEmpty ==
    /\ \A x \in {T_hi, T_xy, T_empty} :
          result = ResultWithText(x) => RespondedWithContent(x)
    /\ result \in ResultsLackingALevel => RespondedWithContent(T_empty)

C6_Witness ==
    /\ result = ResultWithText(T_hi)
    /\ RespondedWithContent(T_hi)

C6_WitnessLacking ==
    /\ result = InResults(PyDict([message |-> PyDict(EmptyKV)]))
    /\ RespondedWithContent(T_empty)

\* C9: when the lookup of request.model finds no flow, the call ends as a 404
\* with an OpenAI-shaped body, and the lookup is the only step it has made
C9_FlowNotFoundIs404 ==
    (flow_lookup.ok /\ flow_lookup.value = PyNone)
    => /\ pc = "done"
       /\ response.kind = "HTTPException"
       /\ response.status_code = 404
       /\ IsOpenAIError(response.detail)
       /\ steps = <<"get_flow_by_id_or_endpoint_name">>
       /\ NoFlowExecution

C9_Witness ==
    /\ flow_lookup.ok
    /\ flow_lookup.value = PyNone
    /\ response.kind = "HTTPException"
    /\ response.status_code = 404

LastMessage == request.messages[Len(request.messages)]

\* C10: the run request handed to the flow has the content of the last message
\* as its input value; nothing else of the message list is in it
C10_InputIsLastMessage ==
    run_request # PyNone
    => /\ request.messages # <<>>
       /\ run_request.input_value = LastMessage.content
       /\ run_request = [input_value |-> LastMessage.content,
                         input_type  |-> "chat",
                         output_type |-> "chat",
                         tweaks      |-> IF request.tweaks = PyNone
                                         THEN PyDict(EmptyKV) ELSE request.tweaks,
                         session_id  |-> session_id]

C10_Witness ==
    /\ run_request # PyNone
    /\ Len(request.messages) = 2
    /\ request.messages[1].content # request.messages[2].content
    /\ run_request.input_value = request.messages[2].content

\* the tokens str(uuid.uuid4()) gives
Generated == {PyName(u) : u \in UUIDs}

\* C11 (as stated): the run request carries the caller's session id whenever
\* the caller supplied one, a generated token only when the caller omitted it,
\* and never a missing session id
C11_SessionIdSuppliedOrFresh ==
    run_request # PyNone
    => /\ request.session_id # PyNone
          => run_request.session_id = request.session_id
       /\ run_request.session_id \in Generated => request.session_id = PyNone
       /\ run_request.session_id # PyNone

\* C11 (amended): the run request carries the caller's session id, unchanged,
\* whenever the caller supplied a non-empty one, and a generated token when the
\* caller omitted it or supplied the empty string; it never carries a missing
\* or empty session id
C11_NonEmptySessionIdOrFresh ==
    run_request # PyNone
    => /\ request.session_id \notin {PyNone, PyName("")}
          => run_request.session_id = request.session_id
       /\ request.session_id \in {PyNone, PyName("")}
          => run_request.session_id \in Generated
       /\ run_request.session_id \notin {PyNone, PyName("")}

C11_Witness ==
    /\ run_request # PyNone
    /\ request.session_id = PyName("s1")
    /\ run_request.session_id = PyName("s1")

\* the words of a text: the places where a character that is not whitespace
\* starts the text or follows whitespace
WordStarts(s) ==
    {i \in 1..Len(s) : s[i] \notin Whitespace /\ (i = 1 \/ s[i - 1] \in Whitespace)}

Responded == pc = "done" /\ response.kind = "OpenAIResponsesResponse"

\* C12: in a non-streaming response, prompt_tokens is the number of words of
\* the last message, completion_tokens the number of words of the returned
\* content, total_tokens their sum; "a b c" and "x y" give 3, 2, 5 and an
\* empty completion gives 0
C12_UsageCountsWords ==
    Responded
    => LET usage == response.body.usage
           content == response.body.choices[1].message.content.s
       IN  /\ usage.prompt_tokens = Cardinality(WordStarts(LastMessage.content))
           /\ usage.completion_tokens = Cardinality(WordStarts(content))
           /\ usage.total_tokens = usage.prompt_tokens + usage.completion_tokens
           /\ (LastMessage.content = T_abc /\ content = T_xy)
              => usage = [prompt_tokens |-> 3, completion_tokens |-> 2,
                          total_tokens |-> 5]
           /\ content = T_empty => usage.completion_tokens = 0

C12_Witness ==
    /\ Responded
    /\ LastMessage.content = T_abc
    /\ response.body.choices[1].message.content = PyStr(T_xy)
    /\ response.body.usage.total_tokens = 5

\* the 500 the boundary makes of an exception that is not an HTTPException
ConvertedTo500 ==
    /\ pc = "done"
    /\ response.kind = "HTTPException"
    /\ response.status_code = 500
    /\ IsOpenAIError(response.detail)

LastStep == IF steps = <<>> THEN "none" ELSE steps[Len(steps)]

\* results whose unwrapping raises: the first output is None, the results are
\* None, the message is None, the text is None
ResultsThatRaise ==
    {PyDict([outputs |-> PyList(<< PyNone >>)]),
     InResults(PyNone),
     InResults(PyDict([message |-> PyNone])),
     InResults(PyDict([message |-> PyDict([text |-> PyNone])]))}

\* C13: an exception that is not an HTTPException, raised by the lookup, by
\* the telemetry step or by the unwrapping of the result, leaves the handler
\* as a 500 error response; the 404, the 400s and the 500 of
\* run_flow_for_openai_responses leave it with their status and body
\* unchanged; nothing but an HTTPException is ever raised by the handler
C13_BoundaryConvertsOrPassesThrough ==
    /\ response.kind \in {"none", "HTTPException", "OpenAIResponsesResponse",
                          "StreamingResponse"}
    /\ (LastStep = "get_flow_by_id_or_endpoint_name" /\ ~flow_lookup.ok)
       => ConvertedTo500
    /\ LastStep = "RunPayload" => ConvertedTo500
    /\ result \in ResultsThatRaise => ConvertedTo500
    /\ (flow_lookup.ok /\ flow_lookup.value = PyNone)
       => response = [kind |-> "HTTPException", status_code |-> 404,
                      detail |-> create_openai_error("Flow not found")]
    /\ (pc = "done" /\ LastStep = "has_chat_components")
       => /\ response.kind = "HTTPException"
          /\ response.status_code = 400
          /\ response.detail = create_openai_error(
                "Flow must have both ChatInput and ChatOutput components for OpenAI compatibility")
    /\ (pc = "done" /\ LastStep = "messages_check")
       => /\ response.kind = "HTTPException"
          /\ response.status_code = 400
          /\ response.detail = create_openai_error("At least one message is required")
    /\ (pc = "done" /\ LastStep = "simple_run_flow" /\ result = NoResult)
       => response = [kind |-> "HTTPException", status_code |-> 500,
                      detail |-> PyName("flow run failed")]

C13_Witness ==
    /\ result = InResults(PyNone)
    /\ ConvertedTo500

C13_WitnessPassedThrough ==
    /\ LastStep = "simple_run_flow"
    /\ result = NoResult
    /\ response.kind = "HTTPException"
    /\ response.detail = PyName("flow run failed")

\* the request has passed the three checks of lines 124-138
PassedValidation == pc \in {"respond", "streaming", "done"} /\ request.messages # <<>>
                    /\ \E i \in 1..Len(steps) : steps[i] = "messages_check"

FlowExecuted ==
    \E i \in 1..Len(steps) : steps[i] \in {"simple_run_flow", "run_flow_generator"}

\* C14: for a request that has passed validation the run record has been
\* scheduled, whether or not building and scheduling it succeeded, and the
\* request ends as an error response only when the execution of the flow did
\* that
C14_TelemetryNeverFailsResponse ==
    PassedValidation
    => /\ Len(background_tasks) = 1
       /\ response.kind = "HTTPException" => FlowExecuted

NoTelemetry ==
    /\ background_tasks = <<>>
    /\ \A i \in 1..Len(steps) : steps[i] \notin {"RunPayload", "add_task"}

\* C16 (as stated): a request with an empty message list ends as a 400 with an
\* OpenAI-shaped body, without telemetry and without execution of the flow
C16_EmptyMessagesIs400 ==
    (request.messages = <<>> /\ pc = "done")
    => /\ response.kind = "HTTPException"
       /\ response.status_code = 400
       /\ IsOpenAIError(response.detail)
       /\ NoTelemetry
       /\ NoFlowExecution

\* C16 (amended): a request with an empty message list never gets past the
\* message check; it ends as an error with an OpenAI-shaped body, without
\* telemetry and without execution of the flow, whatever request.stream is,
\* and when its flow resolves and has both chat components the error is the
\* 400 of the message check
C16_EmptyMessagesIs400AfterFlowChecks ==
    request.messages = <<>>
    => /\ pc \in {"resolve", "validate", "extract", "done"}
       /\ NoTelemetry
       /\ NoFlowExecution
       /\ pc = "done"
          => /\ response.kind = "HTTPException"
             /\ IsOpenAIError(response.detail)
             /\ (FlowResolved /\ ~LacksChatComponent(flow.data))
                => /\ response.status_code = 400
                   /\ response.detail =
                         create_openai_error("At least one message is required")

C16_Witness ==
    /\ request.messages = <<>>
    /\ request.stream
    /\ pc = "done"
    /\ LastStep = "messages_check"
    /\ response.status_code = 400

\* the chunks of the flow that are not empty, in the order of the flow, and
\* the contents of the content frames, in the order of the stream
NonEmptyOf(chunks) == SelectSeq(chunks, LAMBDA c : c # PyStr(T_empty))
ContentsOf(fs) ==
    LET cs == SelectSeq(fs, IsContentFrame)
    IN  [i \in 1..Len(cs) |-> cs[i].choices[1].delta.content]
IsPrefix(p, q) == Len(p) <= Len(q) /\ p = SubSeq(q, 1, Len(p))

\* C17: the contents of the content frames are, in order, the non-empty chunks
\* of the flow: a prefix of them while the stream goes on, all of them when
\* the flow has ended
C17_ContentFramesFollowChunks ==
    pc = "streaming"
    => /\ IsPrefix(ContentsOf(frames), NonEmptyOf(flow_mock.chunks))
       /\ (StreamEnded /\ ~flow_mock.fails)
          => ContentsOf(frames) = NonEmptyOf(flow_mock.chunks)

\* C19: a stream whose flow has ended has one frame for each non-empty chunk
\* with object "chat.completion.chunk", the model of the request, one choice
\* of index 0, a delta that is that chunk alone and no finish_reason; then the
\* stop frame with the same model, an empty delta and finish_reason "stop";
\* and no other frame has finish_reason "stop"
C19_FrameEnvelopes ==
    (StreamEnded /\ ~flow_mock.fails)
    => LET chunks == NonEmptyOf(flow_mock.chunks)
           n == Len(chunks)
       IN  /\ Len(frames) >= n + 1
           /\ \A i \in 1..n :
                /\ IsChunkFrame(frames[i])
                /\ frames[i].object = "chat.completion.chunk"
                /\ frames[i].model = request.model
                /\ Len(frames[i].choices) = 1
                /\ frames[i].choices[1].index = 0
                /\ frames[i].choices[1].delta = [content |-> chunks[i]]
                /\ frames[i].choices[1].finish_reason = PyNone
           /\ IsStopFrame(frames[n + 1])
           /\ frames[n + 1].object = "chat.completion.chunk"
           /\ frames[n + 1].model = request.model
           /\ \A i \in 1..Len(frames) :
                (IsChunkFrame(frames[i]) /\ i # n + 1)
                => frames[i].choices[1].finish_reason # PyName("stop")

\* the steps of the handler in the order of lines 117-154
CheckOrder == <<"get_flow_by_id_or_endpoint_name", "has_chat_components",
                "messages_check">>
PassesAllChecks ==
    FlowResolved /\ ~LacksChatComponent(flow.data) /\ request.messages # <<>>

C21_WitnessScheduled ==
    /\ PassesAllChecks
    /\ Len(steps) = 5
    /\ Len(background_tasks) = 1

ContentFrames(fs) == SelectSeq(fs, IsContentFrame)

\* C22: no content frame carries an empty chunk, a stream never has more
\* content frames than the flow has non-empty chunks, and a stream whose flow
\* has ended has exactly as many content frames as the flow yielded non-empty
\* chunks
C22_OneContentFramePerNonEmptyChunk ==
    pc = "streaming"
    => /\ \A i \in 1..Len(frames) :
            IsContentFrame(frames[i])
            => frames[i].choices[1].delta.content # PyStr(T_empty)
       /\ Len(ContentFrames(frames)) <= Len(NonEmptyOf(flow_mock.chunks))
       /\ (StreamEnded /\ ~flow_mock.fails)
          => Len(ContentFrames(frames)) = Len(NonEmptyOf(flow_mock.chunks))

-----------------------------------------------------------------------------
(* Properties of the log buffer, checked under LogSeqSpec and LogSpec *)

AllIdle == \A t \in Threads : th[t] = Idle

\* the capacity: what the getter of max returns
Capacity == MaxGetter(max_, environ)

LastN(q, n) == SubSeq(q, Len(q) - n + 1, Len(q))

\* C7: between two calls, when more than N >= 1 entries have been appended by
\* write, append and extend since the capacity N was last set (and since the
\* buffer was last modified in another way), the buffer is exactly the N
\* entries appended last, in the order they were appended
C7_HoldsLastNAppended ==
    (AllIdle /\ Capacity >= 1 /\ Len(hist.appended) > Capacity)
    => buffer = LastN(hist.appended, Capacity)

\* a thread is inside the modification of a method that modifies the buffer
InModification(t) ==
    \/ th[t].op \in LockedOps /\ th[t].pc # "lock"
    \/ th[t].op \in {"setitem", "delitem"} /\ th[t].pc = "body"

InRead(t) == th[t].op = "read" /\ th[t].pc = "copy"

\* C8: at most one thread is inside a modification of the buffer, and at most
\* max_readers threads are inside read()
C8_WritersExcludedReadersBounded ==
    /\ Cardinality({t \in Threads : InModification(t)}) <= 1
    /\ Cardinality({t \in Threads : InRead(t)}) <= max_readers

\* the number the environment variable stands for: its digits, 0 when it is
\* missing or not a number
EnvCapacity(e) == IF e.set /\ e.isdigit THEN e.n ELSE 0

\* C20: what a read of max returns is the number the environment variable
\* stands for now, unless set_log_buffer_size has set a size since the
\* variable was last changed, and then it is that size
C20_CapacityFollowsEnvironment ==
    Capacity = IF hist.size_set.set THEN hist.size_set.size
               ELSE EnvCapacity(environ)

\* a call of write, append, appendleft, extend or extendleft has changed the
\* buffer and has more changes to make: an entry evicted and its replacement
\* not yet inserted, or some items of an extend inserted and others not
PartiallyApplied(u) ==
    /\ th[u].op \in InsertOps
    /\ th[u].pc # "lock"
    /\ th[u].applied > 0
    /\ th[u].items # <<>>

\* C23: when read() copies the buffer, no call of another thread is partially
\* applied: the copy is the buffer as it was before or after each whole write
C23_ReadSeesWholeWrites ==
    [][\A t \in Threads :
          (InRead(t) /\ th'[t] = Idle)
          => \A u \in Threads \ {t} : ~PartiallyApplied(u)]_vars

\* the write lock is held by the one thread inside a locked method, and free
\* when there is none; the permits taken are those of the threads inside read
LocksMatchCalls ==
    /\ \A t \in Threads :
         (th[t].op \in LockedOps /\ th[t].pc # "lock") <=> wlock = t
    /\ wlock \in Threads \cup {NoThread}
    /\ rsem = max_readers - Cardinality({t \in Threads : InRead(t)})

\* the step of thread t that makes the deque raise IndexError
RaisesIndexError(t) ==
    \/ th[t].op \in {"pop", "popleft"} /\ th[t].pc = "body" /\ buffer = <<>>
    \/ th[t].op \in InsertOps /\ th[t].pc = "evict" /\ buffer = <<>>

FailureReleases ==
    \A t \in Threads :
        (RaisesIndexError(t) /\ th'[t] # th[t])
        => /\ th'[t] = Idle
           /\ buffer' = buffer
           /\ wlock' = NoThread
           /\ rsem' = rsem

\* C24: the write lock and the permits are held by the calls in progress
\* only, so every call that ends, also by an error, has released what it
\* took; pop and popleft on an empty buffer and an insertion that finds the
\* buffer empty and full (capacity 0) end the call with the buffer unchanged
\* and the lock free; and under fair scheduling every call ends
C24_OperationsReleaseAndComplete ==
    /\ []LocksMatchCalls
    /\ [][FailureReleases]_vars
    /\ \A t \in 1..NThreads : (th[t] # Idle) ~> (th[t] = Idle)

C24_Witness ==
    /\ th[1].op = "append" /\ th[1].pc = "evict"
    /\ buffer = <<>>
    /\ max_ = 0
    /\ wlock = 1
    /\ th[2].op = "popleft" /\ th[2].pc = "lock"

\* what calling append (appendleft when left) on each item in order makes of
\* the buffer b of capacity cap; the call that finds b empty and full raises
RECURSIVE AppendEach(_, _, _, _)
AppendEach(b, items, cap, left) ==
    IF items = <<>> THEN b
    ELSE IF Len(b) >= cap /\ b = <<>> THEN b
    ELSE LET x == Head(items)
             kept == IF Len(b) < cap THEN b
                     ELSE IF left THEN SubSeq(b, 1, Len(b) - 1)
                     ELSE SubSeq(b, 2, Len(b))
         IN  AppendEach(IF left THEN <<x>> \o kept ELSE Append(kept, x),
                        Tail(items), cap, left)

InExtend(u) == th[u].op \in {"extend", "extendleft"} /\ th[u].pc # "lock"

\* C25: while a call of extend or extendleft is inside its with block, only
\* that call changes the buffer; and (with one thread) when the call has
\* handled its last item the buffer is what append, or appendleft, of each
\* item in order makes of the buffer the call started with
C25_ExtendIsAtomicAppends ==
    [][\A u \in Threads :
          InExtend(u)
          => /\ buffer' # buffer => th'[u] # th[u]
             /\ (Cardinality(Threads) = 1 /\ th[u].pc = "loop" /\ th[u].items = <<>>)
                => buffer = AppendEach(th[u].before, th[u].all, Capacity,
                                       th[u].op = "extendleft")]_vars

LeftOps == InsertOps \ RightOps

\* the steps of appendleft and extendleft: the eviction takes the rightmost
\* entry away, the insertion puts the item at the left end, and appendleft on
\* a buffer of N = capacity >= 1 entries leaves the N - 1 leftmost of them
\* after the item
LeftStepsMirror ==
    \A t \in Threads :
        (th[t].op \in LeftOps /\ th'[t] # th[t])
        => /\ (th[t].pc = "evict" /\ buffer # <<>>)
              => buffer' = SubSeq(buffer, 1, Len(buffer) - 1)
           /\ th[t].pc = "insert" => buffer' = <<Head(th[t].items)>> \o buffer
           /\ (th[t].op = "appendleft" /\ th[t].pc = "insert"
               /\ Capacity >= 1 /\ Len(th[t].before) = Capacity)
              => /\ buffer' = <<Head(th[t].items)>>
                               \o SubSeq(th[t].before, 1, Capacity - 1)
                 /\ Len(buffer') = Capacity

\* C26: appendleft and extendleft evict at the right end and insert at the
\* left end, appendleft on a full buffer keeps its length, and with the
\* capacity left alone the buffer never holds more entries than the capacity
C26_LengthWithinCapacity ==
    /\ [](Len(buffer) <= Capacity)
    /\ [][LeftStepsMirror]_vars

C26_Witness ==
    /\ AllIdle
    /\ Capacity = 2
    /\ buffer = <<Item(3), Item(1)>>

-----------------------------------------------------------------------------
(* Properties of the graph, checked under GraphSpec *)

\* the vertices reached from v along one edge or more
RECURSIVE ReachedFrom(_, _)
ReachedFrom(g, S) ==
    LET next == S \cup {e.target : e \in {x \in g.edges : x.source \in S}}
    IN  IF next = S THEN S ELSE ReachedFrom(g, next)
Successors(g, v) == {e.target : e \in {x \in g.edges : x.source = v}}
HasCycle(g) == \E v \in g.vertices : v \in ReachedFrom(g, Successors(g, v))

PositionOf(v) == CHOOSE i \in 1..Len(build.order) : build.order[i] = v

\* C18: for a graph without cycles, build() is not rejected, every vertex in
\* the build order comes after all vertices that feed it, and the build order
\* of a finished build has every vertex exactly once
C18_BuildOrderRespectsDependencies ==
    ~HasCycle(graph)
    => /\ build.pc # "structural_error"
       /\ \A e \in graph.edges :
             e.target \in Built
             => /\ e.source \in Built
                /\ PositionOf(e.source) < PositionOf(e.target)
       /\ build.pc = "built"
          => /\ Built = graph.vertices
             /\ Len(build.order) = Cardinality(graph.vertices)

C18_Witness ==
    /\ graph = [vertices |-> {1, 2, 3}, edges |-> {Edge(3, 2), Edge(2, 1)}]
    /\ build = [pc |-> "built", order |-> <<3, 2, 1>>]

=============================================================================
